---- MODULE Spec2Model ----
(***************************************************************************)
(* FramedWrite / FramedWrite2 of futures-codec (src/src/framed_write.rs):  *)
(* a Sink that encodes items into an accumulation buffer and drains the    *)
(* buffer to an AsyncWrite channel.                                        *)
(*                                                                         *)
(* Every action is one call of a method of FramedWrite2 (the Sink methods,  *)
(* AsyncRead::poll_read, release), from entry to return.  The channel      *)
(* (AsyncWrite, AsyncRead) and the encoder (Encoder) are the environment:  *)
(* what they answer to each call is chosen nondeterministically.           *)
(***************************************************************************)
EXTENDS Integers, Sequences, FiniteSets, TLC

\* ------------------------------------------------------------------ bounds
\* number of start_send calls explored
MaxSubmits == 2
\* largest capacity of the fixed-capacity destination (io::Cursor)
MaxCap == 4
\* how often the finitely-suspending channel may answer Pending
MaxStalls == 1

\* the items submitted: item i encodes to i bytes
Items == {1, 2}

\* the lengths of the caller's buffer handed to poll_read
ReadLens == {1, 2}

\* ----------------------------------------------------------------- helpers
Min(a, b) == IF a < b THEN a ELSE b

Take(s, n) == SubSeq(s, 1, n)

RECURSIVE Flatten(_)
Flatten(ss) == IF ss = <<>> THEN <<>> ELSE Head(ss) \o Flatten(Tail(ss))

\* ------------------------------------------------------------------- state
VARIABLES
    buffer,   \* FramedWrite2.buffer: the accumulation buffer
    inner,    \* FramedWrite2.inner: the channel (kind, capacity, position,
              \*          contents, bytes accepted)
    sent,     \* history: the bytes each encode call appended, in call order
    last,     \* history: the Sink call that returned last, its result and
              \*          the channel calls it made
    seen      \* history: the results other than Ok that Sink calls have returned
              \*          (poll_read is not a Sink call)

vars == <<buffer, inner, sent, last, seen>>

\* the bytes the channel's poll_write has accepted so far, in order
Received == inner.data

\* ------------------------------------------------------------ the encoder
\* LinesCodec-like encoding: item i is the i bytes 10*i+1 .. 10*i+i
EncodedBytes(item) == [k \in 1..item |-> 10 * item + k]

\* Encoder::encode(item, &mut buffer): appends to the buffer; on success the
\* whole encoding, on failure a proper prefix of it (no roll back).
EncodeResults(item, buf) ==
    {[res |-> "Ok", buf |-> buf \o EncodedBytes(item), wrote |-> EncodedBytes(item)]}
    \cup
    {[res |-> "EncodeErr", buf |-> buf \o Take(EncodedBytes(item), k),
      wrote |-> Take(EncodedBytes(item), k)] : k \in 0..(item - 1)}

\* ------------------------------------------------------------ the channel
\* What AsyncWrite::poll_write(cx, buf) may answer.
\*  "cursor": io::Cursor over a fixed slice: takes what still fits between its
\*            position and its end, never suspends
\*  "any":    any AsyncWrite: suspends, fails, or takes a prefix (possibly empty)
\*  "chunky": takes a positive-length prefix, suspends at most inner.stalls times
WriteResults(ch, buf) ==
    CASE ch.kind = "cursor" ->
           {[res |-> "Ok", n |-> Min(Len(buf), ch.cap - ch.pos)]}
      [] ch.kind = "any" ->
           {[res |-> "Pending", n |-> 0], [res |-> "IoErr", n |-> 0]}
           \cup {[res |-> "Ok", n |-> k] : k \in 0..Len(buf)}
      [] ch.kind = "chunky" ->
           (IF ch.stalls > 0 THEN {[res |-> "Pending", n |-> 0]} ELSE {})
           \cup {[res |-> "Ok", n |-> k] : k \in 1..Len(buf)}

\* What AsyncWrite::poll_flush(cx) may answer.
FlushResults(ch) ==
    CASE ch.kind = "cursor" -> {"Ok"}
      [] ch.kind = "any"    -> {"Pending", "IoErr", "Ok"}
      [] ch.kind = "chunky" -> (IF ch.stalls > 0 THEN {"Pending"} ELSE {}) \cup {"Ok"}

\* What AsyncWrite::poll_close(cx) may answer.
CloseResults(ch) ==
    CASE ch.kind = "cursor" -> {"Ok"}
      [] ch.kind = "any"    -> {"Pending", "IoErr", "Ok"}
      [] ch.kind = "chunky" -> (IF ch.stalls > 0 THEN {"Pending"} ELSE {}) \cup {"Ok"}

\* What AsyncRead::poll_read(cx, buf) may answer for a buf of len bytes.
\*  "cursor": reads what lies between its position and its end, never suspends
\*  others:   suspends, fails, or fills a prefix of buf (possibly empty)
ReadResults(ch, len) ==
    IF ch.kind = "cursor"
    THEN {[res |-> "Ok", n |-> Min(len, ch.cap - ch.pos)]}
    ELSE {[res |-> "Pending", n |-> 0], [res |-> "IoErr", n |-> 0]}
         \cup {[res |-> "Ok", n |-> k] : k \in 0..len}

\* the channel after a read of n bytes: the cursor's one position, shared by
\* its read and its write side, moves on by n (skipped counts the bytes read);
\* the write side of any other channel is not touched by a read
ReadFrom(ch, n) ==
    IF ch.kind = "cursor"
    THEN [ch EXCEPT !.pos = @ + n, !.skipped = @ + n]
    ELSE ch

\* the channel after it accepted the first n bytes of buf; dirty: it holds
\* bytes that no successful flush of the channel has followed yet.  The
\* cursor stores them at its position and moves the position on by n.
Accept(ch, buf, n) ==
    IF ch.kind = "cursor"
    THEN [ch EXCEPT !.data = @ \o Take(buf, n),
                    !.dirty = TRUE,
                    !.slice = [i \in 1..ch.cap |->
                                 IF ch.pos < i /\ i <= ch.pos + n THEN buf[i - ch.pos]
                                 ELSE @[i]],
                    !.pos = @ + n]
    ELSE [ch EXCEPT !.data = @ \o Take(buf, n), !.dirty = TRUE]

\* the channel after its flush succeeded
Flushed(ch) == [ch EXCEPT !.dirty = FALSE]

\* the channel after it answered Pending
Stall(ch) == [ch EXCEPT !.stalls = IF @ > 0 THEN @ - 1 ELSE 0]

\* one channel call as recorded in last.ops: the call, its answer, and the
\* accumulation buffer at the moment of the call
Op(call, res, n, buf) == [call |-> call, res |-> res, n |-> n, buf |-> buf]

\* the state a Sink call returns in
Outcome(buf, ch, ops, result) ==
    [buffer |-> buf, inner |-> ch, ops |-> ops, result |-> result]

\* ------------------------------------------------------------ FramedWrite2
\* mutant of SplitTo: one byte too many leaves the buffer
SplitToSkip(buf, n) == SubSeq(buf, n + 2, Len(buf))

\* mutant of SplitTo: the buffer is cleared after a partial write
SplitToClear(buf, n) == <<>>

\* BytesMut::split_to(num_write), result dropped: the buffer keeps what
\* follows its first n bytes
SplitTo(buf, n) == SubSeq(buf, n + 1, Len(buf))

\* the channels a FramedWrite is constructed over, nothing written yet
\* (a cursor is Cursor::new(vec![0u8; cap]): cap zero bytes, position 0)
Channel(kind, cap, stalls) ==
    [kind |-> kind, cap |-> cap, data |-> <<>>, stalls |-> stalls, dirty |-> FALSE,
     slice |-> [i \in 1..cap |-> 0], pos |-> 0, skipped |-> 0]

Channels ==
    {Channel("any", 0, 0)}
    \cup {Channel("cursor", c, 0) : c \in 0..MaxCap}
    \cup {Channel("chunky", 0, MaxStalls)}

\* the results, other than Ok, returned so far
Note(result) == IF result = "Ok" THEN seen ELSE seen \cup {result}

\* framed_write_2 / FramedWrite::new
Init ==
    /\ buffer = <<>>
    /\ inner \in Channels
    /\ sent = <<>>
    /\ last = [op |-> "new", result |-> "Ok", ops |-> <<>>]
    /\ seen = {}

\* the FramedWrite has not been consumed by release
Alive == last.op # "release"

\* mutant of PollReady: back-pressure, not ready while bytes are buffered
PollReadyBackpressure ==
    /\ Alive
    /\ last' = [op |-> "ready", result |-> IF buffer = <<>> THEN "Ok" ELSE "Pending",
                ops |-> <<>>]
    /\ seen' = IF buffer = <<>> THEN seen ELSE seen \cup {"Pending"}
    /\ UNCHANGED <<buffer, inner, sent>>

\* poll_ready
PollReady ==
    /\ Alive
    /\ last' = [op |-> "ready", result |-> "Ok", ops |-> <<>>]
    /\ UNCHANGED <<buffer, inner, sent, seen>>

\* mutant of StartSend: a failed encode rolls the whole buffer back to empty
StartSendClearOnError ==
    /\ Alive
    /\ Len(sent) < MaxSubmits
    /\ \E item \in Items : \E r \in EncodeResults(item, buffer) :
         /\ buffer' = IF r.res = "Ok" THEN r.buf ELSE <<>>
         /\ sent' = Append(sent, IF r.res = "Ok" THEN r.wrote ELSE <<>>)
         /\ last' = [op |-> "send", result |-> r.res, ops |-> <<>>]
         /\ seen' = Note(r.res)
    /\ UNCHANGED inner

\* start_send(item)
StartSend ==
    /\ Alive
    /\ Len(sent) < MaxSubmits
    /\ \E item \in Items : \E r \in EncodeResults(item, buffer) :
         /\ buffer' = r.buf
         /\ sent' = Append(sent, r.wrote)
         /\ last' = [op |-> "send", result |-> r.res, ops |-> <<>>]
         /\ seen' = Note(r.res)
    /\ UNCHANGED inner

\* mutant of ZeroWrite: the buffer is dropped when the channel is at its end
ZeroWriteClear(buf, ch, wops) == {Outcome(<<>>, ch, wops, "UnexpectedEof")}

\* poll_flush, num_write == 0: the poll ends with the UnexpectedEof error
ZeroWrite(buf, ch, wops) == {Outcome(buf, ch, wops, "UnexpectedEof")}

\* mutant of WriteFailed: the buffer handed to the failed write is lost
WriteFailedDrop(buf, ch, wops) == {Outcome(<<>>, ch, wops, "IoErr")}

\* poll_flush, poll_write answered Ready(Err(e)): `?` returns the error
WriteFailed(buf, ch, wops) == {Outcome(buf, ch, wops, "IoErr")}

\* mutant of WritePending: the bytes offered to the suspended write are taken
\* for written
WritePendingAdvance(buf, ch, wops) == {Outcome(<<>>, Stall(ch), wops, "Pending")}

\* poll_flush, poll_write answered Pending: ready! returns Pending
WritePending(buf, ch, wops) == {Outcome(buf, Stall(ch), wops, "Pending")}

\* mutant of Drained: the channel is flushed once more when the buffer is empty
DrainedThenFlush(buf, ch, ops) ==
    { Outcome(buf, IF f = "Pending" THEN Stall(ch)
                   ELSE IF f = "Ok" THEN Flushed(ch) ELSE ch,
              Append(ops, Op("flush", f, 0, buf)), f)
      : f \in FlushResults(ch) }

\* poll_flush, the buffer is empty: the loop is left, Ready(Ok(()))
Drained(buf, ch, ops) == {Outcome(buf, ch, ops, "Ok")}

\* poll_flush: every way the while loop can run, given the channel's answers
RECURSIVE FlushLoop(_, _, _)

\* mutant of FlushLoop: the channel is flushed once, after the whole buffer
\* has been written, not after each write
RECURSIVE WriteAllThenFlush(_, _, _)
WriteAllThenFlush(buf, ch, ops) ==
    IF buf = <<>>
    THEN DrainedThenFlush(buf, ch, ops)
    ELSE UNION {
        LET wops == Append(ops, Op("write", w.res, w.n, buf)) IN
        IF w.res = "Pending" THEN WritePending(buf, ch, wops)
        ELSE IF w.res = "IoErr" THEN WriteFailed(buf, ch, wops)
        ELSE IF w.n = 0 THEN ZeroWrite(buf, ch, wops)
        ELSE WriteAllThenFlush(SplitTo(buf, w.n), Accept(ch, buf, w.n), wops)
        : w \in WriteResults(ch, buf) }

\* mutant of FlushLoop: `if` for `while`, one write and one flush per poll
FlushOnce(buf, ch, ops) ==
    IF buf = <<>>
    THEN {Outcome(buf, ch, ops, "Ok")}
    ELSE UNION {
        LET wops == Append(ops, Op("write", w.res, w.n, buf)) IN
        IF w.res = "Pending" THEN {Outcome(buf, Stall(ch), wops, "Pending")}
        ELSE IF w.res = "IoErr" THEN {Outcome(buf, ch, wops, "IoErr")}
        ELSE IF w.n = 0 THEN ZeroWrite(buf, ch, wops)
        ELSE LET ch2  == Accept(ch, buf, w.n)
                 buf2 == SplitTo(buf, w.n)
             IN { Outcome(buf2, IF f = "Pending" THEN Stall(ch2)
                                ELSE IF f = "Ok" THEN Flushed(ch2) ELSE ch2,
                          Append(wops, Op("flush", f, 0, buf2)), f)
                  : f \in FlushResults(ch2) }
        : w \in WriteResults(ch, buf) }

\* mutant of FlushLoop: a positive write count is taken for the end of output
FlushEofOnProgress(buf, ch, ops) ==
    IF buf = <<>>
    THEN {Outcome(buf, ch, ops, "Ok")}
    ELSE { Outcome(buf, IF w.res = "Pending" THEN Stall(ch) ELSE ch,
                   Append(ops, Op("write", w.res, w.n, buf)),
                   IF w.res = "Ok" THEN "UnexpectedEof" ELSE w.res)
           : w \in WriteResults(ch, buf) }

FlushLoop(buf, ch, ops) ==
    IF buf = <<>>
    THEN Drained(buf, ch, ops)
    ELSE UNION {
        LET wops == Append(ops, Op("write", w.res, w.n, buf)) IN
        IF w.res = "Pending" THEN WritePending(buf, ch, wops)
        ELSE IF w.res = "IoErr" THEN WriteFailed(buf, ch, wops)
        ELSE IF w.n = 0 THEN ZeroWrite(buf, ch, wops)
        ELSE LET ch2  == Accept(ch, buf, w.n)
                 buf2 == SplitTo(buf, w.n)
             IN UNION {
                  LET fops == Append(wops, Op("flush", f, 0, buf2)) IN
                  IF f = "Pending" THEN {Outcome(buf2, Stall(ch2), fops, "Pending")}
                  ELSE IF f = "IoErr" THEN {Outcome(buf2, ch2, fops, "IoErr")}
                  ELSE FlushLoop(buf2, Flushed(ch2), fops)
                  : f \in FlushResults(ch2) }
        : w \in WriteResults(ch, buf) }

\* mutant of PollFlush: a poll with more than one byte buffered yields to the
\* executor (Pending) before it calls the channel
PollFlushYield ==
    Alive /\
    IF Len(buffer) > 1 /\ last.op # "flush"
    THEN /\ last' = [op |-> "flush", result |-> "Pending", ops |-> <<>>]
         /\ seen' = Note("Pending")
         /\ UNCHANGED <<buffer, inner, sent>>
    ELSE /\ \E o \in FlushLoop(buffer, inner, <<>>) :
              /\ buffer' = o.buffer
              /\ inner' = o.inner
              /\ last' = [op |-> "flush", result |-> o.result, ops |-> o.ops]
              /\ seen' = Note(o.result)
         /\ UNCHANGED sent

\* mutant of PollFlush: an error returned once is latched and returned again
\* by every later flush poll
PollFlushLatched ==
    Alive /\
    IF seen \cap {"UnexpectedEof", "IoErr"} # {}
    THEN /\ last' = [op |-> "flush", result |-> "IoErr", ops |-> <<>>]
         /\ seen' = Note("IoErr")
         /\ UNCHANGED <<buffer, inner, sent>>
    ELSE /\ \E o \in FlushLoop(buffer, inner, <<>>) :
              /\ buffer' = o.buffer
              /\ inner' = o.inner
              /\ last' = [op |-> "flush", result |-> o.result, ops |-> o.ops]
              /\ seen' = Note(o.result)
         /\ UNCHANGED sent

\* poll_flush
PollFlush ==
    /\ Alive
    /\ \E o \in FlushLoop(buffer, inner, <<>>) :
         /\ buffer' = o.buffer
         /\ inner' = o.inner
         /\ last' = [op |-> "flush", result |-> o.result, ops |-> o.ops]
         /\ seen' = Note(o.result)
    /\ UNCHANGED sent

\* mutant of CloseOutcomes: a successful close empties the buffer
CloseOutcomesClear(buf, ch) ==
    UNION {
        LET fops == <<Op("flush", f, 0, buf)>> IN
        IF f = "Pending" THEN {Outcome(buf, Stall(ch), fops, "Pending")}
        ELSE IF f = "IoErr" THEN {Outcome(buf, ch, fops, "IoErr")}
        ELSE { Outcome(IF c = "Ok" THEN <<>> ELSE buf,
                       IF c = "Pending" THEN Stall(Flushed(ch)) ELSE Flushed(ch),
                       Append(fops, Op("close", c, 0, buf)), c)
               : c \in CloseResults(Flushed(ch)) }
        : f \in FlushResults(ch) }

\* poll_close: the channel's flush, then the channel's close
CloseOutcomes(buf, ch) ==
    UNION {
        LET fops == <<Op("flush", f, 0, buf)>> IN
        IF f = "Pending" THEN {Outcome(buf, Stall(ch), fops, "Pending")}
        ELSE IF f = "IoErr" THEN {Outcome(buf, ch, fops, "IoErr")}
        ELSE { Outcome(buf, IF c = "Pending" THEN Stall(Flushed(ch)) ELSE Flushed(ch),
                       Append(fops, Op("close", c, 0, buf)), c)
               : c \in CloseResults(Flushed(ch)) }
        : f \in FlushResults(ch) }

PollClose ==
    /\ Alive
    /\ \E o \in CloseOutcomes(buffer, inner) :
         /\ buffer' = o.buffer
         /\ inner' = o.inner
         /\ last' = [op |-> "close", result |-> o.result, ops |-> o.ops]
         /\ seen' = Note(o.result)
    /\ UNCHANGED sent

\* AsyncRead::poll_read(cx, buf): forwarded to the channel's poll_read; the
\* buffer is not touched
PollRead ==
    /\ Alive
    /\ \E len \in ReadLens : \E r \in ReadResults(inner, len) :
         /\ inner' = ReadFrom(inner, r.n)
         /\ last' = [op |-> "read", result |-> r.res,
                     ops |-> <<Op("read", r.res, r.n, buffer)>>]
    /\ UNCHANGED <<buffer, sent, seen>>

\* mutant of Release: what is still buffered is written out on release
ReleaseFlushing ==
    /\ Alive
    /\ inner' = Accept(inner, buffer, Len(buffer))
    /\ last' = [op |-> "release", result |-> "Ok", ops |-> <<>>]
    /\ UNCHANGED <<buffer, sent, seen>>

\* FramedWrite::release / FramedWrite2::release: consumes the sink and hands
\* back `inner`; the buffer is dropped with the sink (the variable keeps what
\* was dropped)
Release ==
    /\ Alive
    /\ last' = [op |-> "release", result |-> "Ok", ops |-> <<>>]
    /\ UNCHANGED <<buffer, inner, sent, seen>>

\* the Sink methods
Polls == PollReady \/ StartSend \/ PollFlush \/ PollClose

Next == PollReady \/ StartSend \/ PollFlush \/ PollClose \/ PollRead \/ Release

Spec == Init /\ [][Next]_vars

\* repeated flush polls against the channel that takes positive chunks and
\* suspends finitely often
InitLive == Init /\ inner.kind = "chunky"

\* (the sink is polled, never released; poll_read, which leaves the buffer
\* and the write side of this channel as they are, is left out)
SpecLive == InitLive /\ [][Polls]_vars /\ WF_vars(PollFlush)

\* ------------------------------------------------------------------ claims
\* every encode call so far succeeded, each appending its item's whole encoding
AllEncoded == \A i \in DOMAIN sent : \E item \in Items : sent[i] = EncodedBytes(item)

\* the channel accepts every byte offered, eventually
AcceptsAll == inner.kind = "chunky"

\* p is a prefix of s
IsPrefix(p, s) == Len(p) <= Len(s) /\ SubSeq(s, 1, Len(p)) = p

FlushOk == last.op = "flush" /\ last.result = "Ok"

\* what is left of buf after its first n bytes went to the channel
Rest(buf, n) == SubSeq(buf, n + 1, Len(buf))

\* C1: in every reachable state the bytes the channel has received, followed
\* by the buffer's contents, are the bytes the encode calls appended, in call
\* order: no byte is written twice, dropped, reordered or interleaved.
Conservation == Received \o buffer = Flatten(sent)

\* C1 witness: two items were submitted and a flush poll against a channel
\* that may do anything has drained a part of them, the rest is buffered.
ConservationWitness ==
    /\ inner.kind = "any"
    /\ Len(sent) = 2 /\ sent[1] = EncodedBytes(2) /\ sent[2] = EncodedBytes(1)
    /\ last.op = "flush"
    /\ Len(Received) = 1 /\ Len(buffer) = 2

\* C2 (as claimed): once poll_close has returned Ready(Ok) against a channel
\* that accepts everything, the channel has received each submitted item's
\* encoding, in submission order.
CloseDelivers ==
    (last.op = "close" /\ last.result = "Ok" /\ AcceptsAll /\ AllEncoded)
        => Received = Flatten(sent)

\* C3 (as claimed): the channel's close is never invoked while the buffer
\* holds bytes.
CloseAfterDrain ==
    \A i \in DOMAIN last.ops : last.ops[i].call = "close" => last.ops[i].buf = <<>>

\* C4 (as claimed): whenever a flush poll returns Ready(Ok), the buffer is
\* empty and the channel has received the bytes of every submit so far, each
\* submit's bytes contiguous and in submission order; a fixed-capacity
\* destination they fit in stands at position = total encoded length.
FlushOrderPosition ==
    FlushOk =>
        /\ buffer = <<>>
        /\ Received = Flatten(sent)
        /\ (inner.kind = "cursor" /\ Len(Flatten(sent)) <= inner.cap)
              => inner.pos = Len(Flatten(sent))

\* C4 (amended): whenever a flush poll returns Ready(Ok), the buffer is
\* empty and the channel has received the bytes of every submit so far, each
\* submit's bytes contiguous and in submission order; a fixed-capacity
\* destination they fit in stands at position = bytes read from it through
\* poll_read + total encoded length, and when nothing was read it holds the
\* submitted bytes from its start.
FlushOrder ==
    FlushOk =>
        /\ buffer = <<>>
        /\ Received = Flatten(sent)
        /\ (inner.kind = "cursor" /\ Len(Flatten(sent)) <= inner.cap)
              => /\ inner.pos = inner.skipped + Len(Flatten(sent))
                 /\ inner.skipped = 0 => Take(inner.slice, inner.pos) = Flatten(sent)

\* C4 witness: one byte was read from the destination, then A, then B were
\* submitted and a flush returned Ready(Ok): A's bytes then B's were
\* accepted, and the destination stands at 1 + 3.
FlushOrderWitness ==
    /\ FlushOk
    /\ inner.kind = "cursor" /\ inner.skipped = 1
    /\ Len(sent) = 2 /\ sent[1] = EncodedBytes(2) /\ sent[2] = EncodedBytes(1)
    /\ Received = EncodedBytes(2) \o EncodedBytes(1)
    /\ inner.pos = 4 /\ inner.slice = <<0, 21, 22, 11>>

\* C5: against a channel that takes a positive-length chunk per write and
\* suspends finitely often, repeated flush polls lead from any non-empty
\* buffer to a flush poll returning Ready(Ok) with everything delivered.
PartialWriteResilience ==
    (buffer # <<>>) ~> (FlushOk /\ buffer = <<>> /\ Received = Flatten(sent))

\* C5 witness: a flush poll returned Ready(Ok) after the channel had
\* suspended and had taken the buffer in more than one chunk.
PartialWriteWitness ==
    /\ inner.kind = "chunky"
    /\ FlushOk /\ "Pending" \in seen
    /\ Len(Received) >= 3
    /\ \E i \in DOMAIN last.ops :
         last.ops[i].call = "write" /\ last.ops[i].n < Len(last.ops[i].buf)

\* C6: a channel write that reports zero bytes for a non-empty buffer is the
\* last channel call of the flush poll (no channel flush follows), the poll
\* returns the UnexpectedEof error and the buffer is what was offered.
ZeroWriteTermination ==
    last.op = "flush" =>
        \A i \in DOMAIN last.ops :
            (last.ops[i].call = "write" /\ last.ops[i].res = "Ok" /\ last.ops[i].n = 0)
                => /\ i = Len(last.ops)
                   /\ last.result = "UnexpectedEof"
                   /\ buffer = last.ops[i].buf
                   /\ buffer # <<>>

\* C6 witness: a flush poll wrote a part, flushed the channel, and then met
\* a zero-byte write.
ZeroWriteWitness ==
    /\ last.op = "flush" /\ last.result = "UnexpectedEof"
    /\ inner.kind = "any"
    /\ Len(last.ops) = 3
    /\ last.ops[3].n = 0 /\ Len(buffer) >= 2

\* the number of bytes the channel writes logged in ops accepted
RECURSIVE Written(_)
Written(ops) ==
    IF ops = <<>> THEN 0
    ELSE (IF Head(ops).call = "write" /\ Head(ops).res = "Ok" THEN Head(ops).n ELSE 0)
         + Written(Tail(ops))

\* the room left in the destination when the last poll began
Room == inner.cap - inner.pos + Written(last.ops)

\* a flush poll has offered a fixed-capacity destination more bytes than it
\* had room for
Overfull ==
    /\ last.op = "flush" /\ inner.kind = "cursor"
    /\ last.ops # <<>> /\ Len(last.ops[1].buf) > Room

\* the bytes the last start_send appended
SentItem == sent[Len(sent)]

\* s ends with p
IsSuffix(p, s) == Len(p) <= Len(s) /\ SubSeq(s, Len(s) - Len(p) + 1, Len(s)) = p

\* an item was encoded whole, and a flush poll has offered it (after whatever
\* was buffered before it) to a fixed-capacity destination that had less room
\* than the item is long
ItemOverfull ==
    /\ last.op = "flush" /\ inner.kind = "cursor"
    /\ sent # <<>> /\ last.ops # <<>>
    /\ \E item \in Items : SentItem = EncodedBytes(item)
    /\ IsSuffix(SentItem, last.ops[1].buf)
    /\ Len(SentItem) > Room

\* C7 (as claimed): sending an item whose encoded length exceeds the
\* remaining capacity C of a fixed-capacity destination returns a failure;
\* the destination then holds exactly the first C bytes of the encoded item
\* and its position is C.
FixedCapacityPositionC ==
    ItemOverfull =>
        /\ last.result = "UnexpectedEof"
        /\ Written(last.ops) = Room
        /\ SubSeq(inner.slice, inner.cap - Room + 1, inner.cap) = Take(SentItem, Room)
        /\ inner.pos = Room

\* C7 (amended): a flush poll that offers a fixed-capacity destination more
\* bytes than its remaining capacity C (as the flush of an item longer than C
\* does) returns UnexpectedEof; the destination then holds exactly the first
\* C of the bytes that were buffered, undrained bytes of earlier submits
\* before the item's, stored from the position it stood at: the first C bytes
\* of the encoded item when the item was all that was buffered.  What the
\* destination held before that position is as it was, the rest is still
\* buffered, and its position is its capacity (C only if it stood at 0);
\* nothing is stored beyond the capacity.
FixedCapacity ==
    /\ [](Overfull =>
            /\ last.result = "UnexpectedEof"
            /\ Written(last.ops) = Room
            /\ SubSeq(inner.slice, inner.cap - Room + 1, inner.cap) = Take(last.ops[1].buf, Room)
            /\ buffer = Rest(last.ops[1].buf, Room)
            /\ inner.pos = inner.cap)
    /\ [](ItemOverfull =>
            /\ Overfull
            /\ last.result = "UnexpectedEof"
            /\ last.ops[1].buf = SentItem =>
                 SubSeq(inner.slice, inner.cap - Room + 1, inner.cap) = Take(SentItem, Room))
    /\ [](inner.kind = "cursor" =>
            (Len(inner.slice) = inner.cap /\ inner.pos <= inner.cap))
    /\ [][(last'.op = "flush" /\ inner.kind = "cursor")
            => Take(inner'.slice, inner.pos) = Take(inner.slice, inner.pos)]_vars

\* C7 witness: two bytes were read from a 3-byte destination, then a 2-byte
\* item was submitted and flushed: the first byte went to the last place,
\* the second is still buffered.
FixedCapacityWitness ==
    /\ inner.kind = "cursor" /\ inner.cap = 3 /\ inner.skipped = 2
    /\ last.op = "flush" /\ last.result = "UnexpectedEof"
    /\ sent = <<EncodedBytes(2)>>
    /\ inner.slice = <<0, 0, 21>> /\ inner.pos = 3
    /\ Received = <<21>> /\ buffer = <<22>>

\* C8: every poll_ready returns Ready(Ok), makes no channel call and leaves
\* the buffer and the channel as they are, whatever the state.
ReadyAlways ==
    [][last'.op = "ready" =>
         /\ last'.result = "Ok" /\ last'.ops = <<>>
         /\ buffer' = buffer /\ inner' = inner /\ sent' = sent /\ seen' = seen]_vars

\* C8 witness: poll_ready returned with bytes buffered, after a suspended
\* poll and after an error.
ReadyAlwaysWitness ==
    /\ last.op = "ready" /\ last.result = "Ok"
    /\ buffer # <<>> /\ Received # <<>>
    /\ "Pending" \in seen /\ "UnexpectedEof" \in seen

\* C9: a start_send whose encode fails returns the error and leaves every
\* byte that was buffered before it as an unchanged prefix of the buffer; a
\* later successful flush poll has delivered those bytes.
FailedSubmitKeeps ==
    /\ [][(/\ Len(sent') > Len(sent)
            /\ ~(\E item \in Items : sent'[Len(sent')] = EncodedBytes(item)))
           => /\ last'.op = "send" /\ last'.result = "EncodeErr"
              /\ IsPrefix(buffer, buffer')]_vars
    /\ []((FlushOk /\ "EncodeErr" \in seen) => Received = Flatten(sent))

\* C9 witness: A was submitted, B failed to encode, and a flush poll then
\* delivered A's bytes.
FailedSubmitWitness ==
    /\ FlushOk
    /\ Len(sent) = 2 /\ sent[1] = EncodedBytes(2) /\ sent[2] = <<>>
    /\ "EncodeErr" \in seen
    /\ Received = EncodedBytes(2)

\* C10 (as claimed): whenever a flush poll returns Ready(Ok) the buffer is
\* drained and the channel's flush has succeeded after the last byte the
\* channel took.
FlushPostcondition == FlushOk => (buffer = <<>> /\ ~inner.dirty)

\* the last channel call of the last poll
LastCall == last.ops[Len(last.ops)]

\* C11: in a flush poll a channel call that answers with an I/O error is the
\* poll's last channel call and the poll returns that error; the buffer is
\* then as it was offered to a failed write, or, when the channel's flush
\* failed after a write of n bytes, holds exactly the bytes after the first
\* n.  A flush poll returns an I/O error only so.  Nothing accepted is still
\* buffered, and the next flush poll offers the channel exactly the undrained
\* bytes.
IoErrorKeeps ==
    /\ [](last.op = "flush" =>
            \A i \in DOMAIN last.ops :
                last.ops[i].res = "IoErr" =>
                    /\ i = Len(last.ops)
                    /\ last.result = "IoErr"
                    /\ last.ops[i].call \in {"write", "flush"}
                    /\ last.ops[i].call = "write" =>
                         (buffer = last.ops[i].buf /\ buffer # <<>>)
                    /\ last.ops[i].call = "flush" =>
                         /\ i > 1
                         /\ LET w == last.ops[i - 1] IN
                              /\ w.call = "write" /\ w.res = "Ok" /\ w.n > 0
                              /\ buffer = Rest(w.buf, w.n)
                    /\ Received \o buffer = Flatten(sent))
    /\ []((last.op = "flush" /\ last.result = "IoErr") =>
            /\ last.ops # <<>>
            /\ LastCall.res = "IoErr"
            /\ LastCall.call = "write" => buffer = LastCall.buf
            /\ LastCall.call = "flush" =>
                 /\ Len(last.ops) > 1
                 /\ LET w == last.ops[Len(last.ops) - 1] IN
                      /\ w.call = "write" /\ w.res = "Ok" /\ w.n > 0
                      /\ buffer = Rest(w.buf, w.n)
            /\ Received \o buffer = Flatten(sent))
    /\ [][(/\ last.op = "flush" /\ last.result = "IoErr"
           /\ last'.op = "flush" /\ buffer # <<>>)
          => /\ last'.ops # <<>>
             /\ last'.ops[1].call = "write"
             /\ last'.ops[1].buf = buffer]_vars

\* C11 witness: the channel took a part of the buffer and then failed to
\* flush; the rest is still buffered.
IoErrorWitness ==
    /\ last.op = "flush" /\ last.result = "IoErr"
    /\ LastCall.call = "flush"
    /\ Received # <<>> /\ Len(buffer) >= 2

\* the buffer right after the channel call c returned
After(c) == IF c.call = "write" /\ c.res = "Ok" /\ c.n > 0 THEN Rest(c.buf, c.n) ELSE c.buf

\* C12: the buffer changes only by start_send appending at its end and by a
\* channel write of a flush poll reporting n > 0, which removes exactly the
\* first n bytes; every other channel call and every other Sink call leaves
\* it as it is.
BufferDiscipline ==
    /\ [](/\ \A i \in 1..(Len(last.ops) - 1) : last.ops[i + 1].buf = After(last.ops[i])
          /\ last.ops # <<>> => buffer = After(LastCall)
          /\ \A i \in DOMAIN last.ops :
               (last.ops[i].call = "write" /\ last.ops[i].res = "Ok" /\ last.ops[i].n > 0)
                  => last.op = "flush")
    /\ [][/\ last'.ops # <<>> => last'.ops[1].buf = buffer
          /\ (last'.ops = <<>> /\ last'.op # "send") => buffer' = buffer
          /\ last'.op = "send" => (IsPrefix(buffer, buffer') /\ inner' = inner)]_vars

\* C12 witness: a flush poll whose first write took 1 of 3 buffered bytes
\* and which then suspended: the other 2 bytes are the buffer.
BufferDisciplineWitness ==
    /\ last.op = "flush" /\ last.result = "Pending"
    /\ Len(last.ops) = 3
    /\ last.ops[1].n = 1 /\ Len(last.ops[1].buf) = 3
    /\ buffer = Rest(last.ops[1].buf, 1)

\* channel call c is a write that answered Pending
SuspendedWrite(c) == c.call = "write" /\ c.res = "Pending"

\* C13 (as claimed): when the channel's write answers Pending in a flush
\* poll, the poll returns Pending, the buffer is what was offered to that
\* write, and the channel's flush is not invoked in that poll.
WriteSuspensionNoFlush ==
    last.op = "flush" =>
        \A i \in DOMAIN last.ops :
            SuspendedWrite(last.ops[i]) =>
                /\ last.result = "Pending"
                /\ buffer = last.ops[i].buf
                /\ \A j \in DOMAIN last.ops : last.ops[j].call # "flush"

\* C13 (amended): when the channel's write answers Pending in a flush poll,
\* that write is the poll's last channel call (no channel flush follows it),
\* the poll returns Pending and the buffer is what was offered to that write;
\* the next flush poll starts with a write of the same bytes.
WriteSuspension ==
    /\ [](last.op = "flush" =>
            \A i \in DOMAIN last.ops :
                SuspendedWrite(last.ops[i]) =>
                    /\ i = Len(last.ops)
                    /\ last.result = "Pending"
                    /\ buffer = last.ops[i].buf
                    /\ buffer # <<>>)
    /\ [][(/\ last.op = "flush" /\ last.ops # <<>> /\ SuspendedWrite(LastCall)
           /\ last'.op = "flush")
          => /\ last'.ops # <<>>
             /\ last'.ops[1].call = "write"
             /\ last'.ops[1].buf = LastCall.buf]_vars

\* C13 witness: a flush poll wrote a part, flushed the channel, and then
\* the channel's write answered Pending.
WriteSuspensionWitness ==
    /\ last.op = "flush" /\ last.result = "Pending"
    /\ Len(last.ops) = 3 /\ SuspendedWrite(last.ops[3])
    /\ last.ops[2].call = "flush"
    /\ buffer # <<>> /\ Received # <<>>

\* channel call c is a write that reported a positive count
PositiveWrite(c) == c.call = "write" /\ c.res = "Ok" /\ c.n > 0

\* C14: in a flush poll every channel write that reports a positive count
\* is followed at once by a call of the channel's flush, before any further
\* write; when that flush fails or answers Pending it is the poll's last
\* channel call and its answer is the poll's result.
WriteThenFlush ==
    last.op = "flush" =>
        \A i \in DOMAIN last.ops :
            PositiveWrite(last.ops[i]) =>
                /\ i < Len(last.ops)
                /\ last.ops[i + 1].call = "flush"
                /\ last.ops[i + 1].res # "Ok" =>
                     (i + 1 = Len(last.ops) /\ last.result = last.ops[i + 1].res)

\* C14 witness: two partial writes in one poll, the channel's flush after
\* the first succeeded, the one after the second failed and ended the poll.
WriteThenFlushWitness ==
    /\ last.op = "flush" /\ last.result = "IoErr"
    /\ Len(last.ops) = 4
    /\ PositiveWrite(last.ops[1]) /\ last.ops[2].call = "flush" /\ last.ops[2].res = "Ok"
    /\ PositiveWrite(last.ops[3]) /\ last.ops[4].call = "flush" /\ last.ops[4].res = "IoErr"
    /\ buffer # <<>>

\* C15 (as claimed): after flush polls that only ever suspended (no error
\* was returned) and drained a part of the buffer, a close that completes
\* has resumed the drain: nothing is left in the buffer and the channel has
\* received every appended byte.
CloseResumesDrain ==
    (/\ last.op = "close" /\ last.result = "Ok"
     /\ seen = {"Pending"} /\ Received # <<>>)
        => (buffer = <<>> /\ Received = Flatten(sent))

\* C16: poll_ready and start_send never return Pending and call nothing on
\* the channel; a flush or close poll returns Pending only when the last
\* channel call it made answered Pending.
SuspensionPoints ==
    /\ [](/\ last.op \in {"ready", "send"} =>
               (last.result # "Pending" /\ last.ops = <<>>)
          /\ (last.op \in {"flush", "close"} /\ last.result = "Pending") =>
               (last.ops # <<>> /\ LastCall.res = "Pending"))
    /\ [][last'.op \in {"ready", "send"} => inner' = inner]_vars

\* C16 witness: a close poll returned Pending because the channel's close,
\* called after its flush had succeeded, answered Pending.
SuspensionPointsWitness ==
    /\ last.op = "close" /\ last.result = "Pending"
    /\ Len(last.ops) = 2
    /\ last.ops[1].call = "flush" /\ last.ops[1].res = "Ok"
    /\ last.ops[2].call = "close" /\ last.ops[2].res = "Pending"

\* C18: a flush poll made while the buffer is empty returns Ready(Ok) and
\* makes no channel call (neither write nor flush), so it leaves the channel
\* as it is, whatever earlier polls returned.
EmptyFlush ==
    [][(buffer = <<>> /\ last'.op = "flush") =>
          /\ last'.result = "Ok" /\ last'.ops = <<>>
          /\ inner' = inner /\ buffer' = <<>>]_vars

\* C18 witness: the buffer is empty, the channel's last flush did not
\* succeed (it holds unflushed bytes), and a flush poll has returned
\* Ready(Ok) without a channel call.
EmptyFlushWitness ==
    /\ FlushOk /\ last.ops = <<>>
    /\ buffer = <<>> /\ Received # <<>>
    /\ inner.dirty
    /\ "IoErr" \in seen

\* a flush poll has returned the end-of-output error or a channel I/O error
FlushFailedBefore == seen \cap {"UnexpectedEof", "IoErr"} # {}

\* C19: no error is latched.  After a flush poll failed with UnexpectedEof
\* or a channel I/O error, the next flush poll offers the channel the same
\* remainder again; a later start_send still appends its bytes; and a flush
\* poll in which the channel takes everything returns Ready(Ok).
NoErrorLatch ==
    /\ [][(/\ last.op = "flush" /\ last.result \in {"UnexpectedEof", "IoErr"}
           /\ last'.op = "flush" /\ buffer # <<>>)
          => /\ last'.ops # <<>>
             /\ last'.ops[1].call = "write"
             /\ last'.ops[1].buf = buffer]_vars
    /\ [][(FlushFailedBefore /\ Len(sent') > Len(sent))
          => /\ buffer' = buffer \o sent'[Len(sent')]
             /\ (last'.result = "Ok") <=>
                   (\E item \in Items : sent'[Len(sent')] = EncodedBytes(item))]_vars
    /\ []((/\ last.op = "flush" /\ FlushFailedBefore /\ last.result # "Ok")
          => /\ last.ops # <<>>
             /\ ~PositiveWrite(LastCall)
             /\ LastCall.res = "Ok" => (LastCall.call = "write" /\ LastCall.n = 0))

\* C19 witness: flush polls have failed with UnexpectedEof and with a
\* channel I/O error, and a later flush poll wrote what was buffered and
\* returned Ready(Ok) with both submits delivered.
NoErrorLatchWitness ==
    /\ FlushOk /\ last.ops # <<>>
    /\ {"UnexpectedEof", "IoErr"} \subseteq seen
    /\ Len(sent) = 2 /\ AllEncoded
    /\ Received = Flatten(sent)

\* C20: release makes no channel call and hands the channel back as it is;
\* the bytes still buffered are dropped, never written: what the channel has
\* received after release is what it had received before, for good.
ReleaseDiscards ==
    /\ [][last'.op = "release" =>
            /\ inner' = inner
            /\ last'.ops = <<>> /\ last'.result = "Ok"]_vars
    /\ [](last.op = "release" => Received \o buffer = Flatten(sent))

\* C20 witness: the sink was released while a part of what was submitted
\* was still in the buffer.
ReleaseDiscardsWitness ==
    /\ last.op = "release"
    /\ buffer # <<>> /\ Received # <<>>

====
